---- MODULE Spec2Model ----
(***************************************************************************)
(* Model of the iterative prompt-optimization driver documented by the     *)
(* flowchart of the repository (src/unnamed/part_000).  Every node of the  *)
(* flowchart is one action; pc names the node that executes next.  The     *)
(* three composite nodes G, H and N expand into the sub-flowcharts         *)
(* GeneratePredictions, EvaluatePredictions and ImprovePrompt.  A model    *)
(* call is a request put in flight and a reply taken from a small set; a   *)
(* call in flight may also fail, and the failure propagates.               *)
(***************************************************************************)
EXTENDS Integers, Sequences, FiniteSets, TLC

(* ---- bounds ---- *)
NumIterations == 3          \* N, the fixed number of rounds
NumPapers == 2              \* size of the validation set
MaxScore == 1               \* judge scores are 0..MaxScore
MaxPrompt == 1              \* prompts are 0..MaxPrompt

(* ---- values ---- *)
InitialPrompt == 0
NoPrompt == -1
NoIteration == 0
Prompts == 0 .. MaxPrompt
Scores == 0 .. MaxScore
Explanations == {"ok"}

\* A paper of the validation set: abstract and gold labels are fixed by its id.
Paper(i) == [id |-> i, abstract |-> i + 100, gold |-> i + 200]

\* Load validation data from JSON: the papers in file order.
LoadValidationData == [i \in 1 .. NumPapers |-> Paper(i)]

\* Raw replies of the predicting model: a model name, possibly padded.
RawOutputs == {<<"m">>, <<"sp", "m">>}

\* Extract and clean model names: padding is dropped, names are kept.
RECURSIVE CleanModelNames(_)
CleanModelNames(raw) ==
    IF raw = <<>> THEN <<>>
    ELSE IF Head(raw) = "sp" THEN CleanModelNames(Tail(raw))
    ELSE <<Head(raw)>> \o CleanModelNames(Tail(raw))

\* Averages are exact fractions <<sum, count>>.
NoScore == <<-1, 1>>
Frac(s, n) == <<s, n>>
FracLess(a, b) == a[1] * b[2] < b[1] * a[2]
FracEq(a, b) == a[1] * b[2] = b[1] * a[2]
FracLeq(a, b) == FracLess(a, b) \/ FracEq(a, b)

RECURSIVE SumScores(_)
SumScores(evals) ==
    IF evals = <<>> THEN 0
    ELSE Head(evals).score + SumScores(Tail(evals))

\* Calculate average score: the sum of the stored scores over their number.
AverageScore(evals) == Frac(SumScores(evals), Len(evals))

\* Construct zero-shot prompt: the system prompt and no examples.
ZeroShotPrompt(sp) == [system |-> sp, examples |-> <<>>]

\* Check if best score: a round above the running maximum is the best, one
\* below it is not, and a tie may go either way.
IsBestScore(avg, best) == FracLeq(best, avg)
IsNotBestScore(avg, best) == FracLeq(avg, best)

\* variant: the test is off by one and ends the loop a round early
IsLastIteration_early(it) == it >= NumIterations - 1

\* variant: the test is off by one and lets a round follow the last
IsLastIteration_late(it) == it > NumIterations

\* Last iteration?
IsLastIteration(it) == it >= NumIterations

VARIABLES
    pc,               \* flowchart node to execute next
    validation_data,  \* papers loaded at B
    system_prompt,    \* current system prompt
    best_score, best_prompt, best_iteration,   \* tracking variables
    iteration,        \* number of the current round
    zero_shot_prompt, \* prompt constructed at F
    predictions,      \* predictions of the current round
    evaluations,      \* evaluations of the current round
    avg_score,        \* average score of the current round
    all_results,      \* per-iteration results saved at I
    idx,              \* position of the for-each loops of G and H
    request,          \* query / judge input / metaprompt built last
    response,         \* last model reply
    extracted,        \* value extracted from the last reply
    inflight,         \* model calls started and not yet returned
    final_results,    \* sequence of final saves (Q)
    steps,            \* history: <<iteration, node>> of every main-loop node run
    calls,            \* history: every model call finished, with its outcome
    \* ---- the notebooks (chain_of_thought.ipynb, function_calling.ipynb) ----
    cell,             \* notebook cell (or statement) to execute next
    messages,         \* the conversation list of the cell
    assistant_message,\* reply of the model holding the tool calls
    args,             \* keyword arguments decoded from a tool call
    weather,          \* JSON text returned by get_current_weather
    cot_response,     \* text returned by get_chat_completion (response)
    final_response,   \* extracted final response / final completion
    math_reasoning,   \* message of the structured-output completion
    question,         \* position of the loop over user_questions
    printed,          \* output of the cell, in print order
    sent,             \* requests sent to the chat-completion API
    \* ---- the few-shot programs of pal.ipynb ----
    example,          \* number of the example being executed (0: none)
    line,             \* position of the next statement of the example
    namespace         \* the variables the example's statements assign

loopvars == <<pc, validation_data, system_prompt, best_score, best_prompt,
              best_iteration, iteration, zero_shot_prompt, predictions,
              evaluations, avg_score, all_results, idx, request, response,
              extracted, inflight, final_results, steps, calls>>

palvars == <<example, line, namespace>>

nbvars == <<cell, messages, assistant_message, args, weather, cot_response,
            final_response, math_reasoning, question, printed, sent, palvars>>

vars == <<loopvars, nbvars>>

tracking == <<best_score, best_prompt, best_iteration>>
round == <<zero_shot_prompt, predictions, evaluations, avg_score>>
locals == <<idx, request, response, extracted>>
history == <<steps, calls>>

NoRequest == [kind |-> "none", iteration |-> 0, prompt |-> NoPrompt,
              subject |-> 0, evals |-> <<>>]
NoResponse == [names |-> <<>>, score |-> 0, explanation |-> "",
               prompt |-> NoPrompt]

LoopIdle ==
    /\ pc = "A"
    /\ validation_data = <<>>
    /\ system_prompt = NoPrompt
    /\ best_score = NoScore
    /\ best_prompt = NoPrompt
    /\ best_iteration = NoIteration
    /\ iteration = 0
    /\ zero_shot_prompt = ZeroShotPrompt(NoPrompt)
    /\ predictions = <<>>
    /\ evaluations = <<>>
    /\ avg_score = NoScore
    /\ all_results = <<>>
    /\ idx = 0
    /\ request = NoRequest
    /\ response = NoResponse
    /\ extracted = NoResponse
    /\ inflight = {}
    /\ final_results = <<>>
    /\ steps = <<>>
    /\ calls = <<>>

\* strings are sequences of characters; None is a value no string equals
None == <<"<None>">>
NoMessage == [role |-> "", content |-> None, name |-> None,
              tool_call_id |-> None, tool_calls |-> <<>>]
NoArgs == [location |-> None, unit |-> None]
NoParse == [refusal |-> None, parsed |-> None]

\* the variable names the few-shot programs assign
Names == {"today", "one_week_from_today", "ten_days_ago", "later",
          "yesterday", "answer"}

\* no notebook cell has run
NotebookIdle ==
    /\ messages = <<>>
    /\ assistant_message = NoMessage
    /\ args = NoArgs
    /\ weather = None
    /\ cot_response = None
    /\ final_response = None
    /\ math_reasoning = NoParse
    /\ question = 0
    /\ printed = <<>>
    /\ sent = <<>>
    /\ example = 0
    /\ line = 0
    /\ namespace = [n \in Names |-> None]

Init ==
    /\ LoopIdle
    /\ cell = "idle"
    /\ NotebookIdle

Step(node) == steps' = Append(steps, <<iteration, node>>)

(* ---- main flowchart ---- *)

\* A[Start] --> B
A ==
    /\ pc = "A"
    /\ pc' = "B"
    /\ UNCHANGED <<validation_data, system_prompt, tracking, iteration, round,
                   all_results, locals, inflight, final_results, history>>
    /\ UNCHANGED nbvars

\* B[Load validation data from JSON] --> C
B ==
    /\ pc = "B"
    /\ validation_data' = LoadValidationData
    /\ pc' = "C"
    /\ UNCHANGED <<system_prompt, tracking, iteration, round, all_results,
                   locals, inflight, final_results, history>>
    /\ UNCHANGED nbvars

\* C[Initialize system prompt] --> D
C ==
    /\ pc = "C"
    /\ system_prompt' = InitialPrompt
    /\ pc' = "D"
    /\ UNCHANGED <<validation_data, tracking, iteration, round, all_results,
                   locals, inflight, final_results, history>>
    /\ UNCHANGED nbvars

\* D[Initialize tracking variables] --> E
D ==
    /\ pc = "D"
    /\ best_score' = NoScore
    /\ best_prompt' = NoPrompt
    /\ best_iteration' = NoIteration
    /\ all_results' = <<>>
    /\ iteration' = 0
    /\ pc' = "E"
    /\ UNCHANGED <<validation_data, system_prompt, round, locals, inflight,
                   final_results, history>>
    /\ UNCHANGED nbvars

\* E[Enter iteration loop] --> F : the next round begins
E ==
    /\ pc = "E"
    /\ iteration' = iteration + 1
    /\ pc' = "F"
    /\ UNCHANGED <<validation_data, system_prompt, tracking, round,
                   all_results, locals, inflight, final_results, history>>
    /\ UNCHANGED nbvars

\* F[Construct zero-shot prompt] --> G
F ==
    /\ pc = "F"
    /\ zero_shot_prompt' = ZeroShotPrompt(system_prompt)
    /\ Step("F")
    /\ pc' = "G"
    /\ UNCHANGED <<validation_data, system_prompt, tracking, iteration,
                   predictions, evaluations, avg_score, all_results, locals,
                   inflight, final_results, calls>>
    /\ UNCHANGED nbvars

\* G[Generate predictions using GPT-4o-mini] : enters GeneratePredictions
G ==
    /\ pc = "G"
    /\ predictions' = <<>>
    /\ idx' = 1
    /\ Step("G")
    /\ pc' = "G1"
    /\ UNCHANGED <<validation_data, system_prompt, tracking, iteration,
                   zero_shot_prompt, evaluations, avg_score, all_results,
                   request, response, extracted, inflight, final_results,
                   calls>>
    /\ UNCHANGED nbvars

(* ---- GeneratePredictions ---- *)

\* variant: the for-each loop stops one paper short
G1_skipsLast ==
    /\ pc = "G1"
    /\ pc' = IF idx < Len(validation_data) THEN "G2" ELSE "H"
    /\ UNCHANGED <<validation_data, system_prompt, tracking, iteration, round,
                   all_results, locals, inflight, final_results, history>>
    /\ UNCHANGED nbvars

\* G1[For each paper in validation data] --> G2, or on to H when none is left
G1 ==
    /\ pc = "G1"
    /\ pc' = IF idx <= Len(validation_data) THEN "G2" ELSE "H"
    /\ UNCHANGED <<validation_data, system_prompt, tracking, iteration, round,
                   all_results, locals, inflight, final_results, history>>
    /\ UNCHANGED nbvars

\* G2[Create query with paper abstract] --> G3
G2 ==
    /\ pc = "G2"
    /\ request' = [kind |-> "predict", iteration |-> iteration,
                   prompt |-> zero_shot_prompt.system,
                   subject |-> validation_data[idx].abstract, evals |-> <<>>]
    /\ pc' = "G3"
    /\ UNCHANGED <<validation_data, system_prompt, tracking, iteration, round,
                   all_results, idx, response, extracted, inflight,
                   final_results, history>>
    /\ UNCHANGED nbvars

\* variant: the call is started and not awaited
StartCall_noWait(node, req) ==
    /\ pc = node
    /\ request' = req
    /\ inflight' = inflight \cup {req}
    /\ pc' = IF node = "G3" THEN "G4" ELSE IF node = "H2" THEN "H3" ELSE "N3"
    /\ UNCHANGED <<validation_data, system_prompt, tracking, iteration, round,
                   all_results, idx, response, extracted, final_results,
                   history>>
    /\ UNCHANGED nbvars

\* The call of a model starts: the request is in flight until the reply.
StartCall(node, req) ==
    /\ pc = node
    /\ request' = req
    /\ inflight' = inflight \cup {req}
    /\ pc' = node \o "_wait"
    /\ UNCHANGED <<validation_data, system_prompt, tracking, iteration, round,
                   all_results, idx, response, extracted, final_results,
                   history>>
    /\ UNCHANGED nbvars

\* The call returns: the reply is taken and the finished call is logged.
ReturnCall(node, next, reply) ==
    /\ pc = node \o "_wait"
    /\ request \in inflight
    /\ response' = reply
    /\ inflight' = inflight \ {request}
    /\ calls' = Append(calls, [req |-> request, outcome |-> "ok",
                               new_prompt |-> reply.prompt])
    /\ pc' = next
    /\ UNCHANGED <<validation_data, system_prompt, tracking, iteration, round,
                   all_results, idx, request, extracted, final_results, steps>>
    /\ UNCHANGED nbvars

\* G3[Get prediction from GPT-4o-mini] --> G4
G3 ==
    \/ StartCall("G3", request)
    \/ \E raw \in RawOutputs :
           ReturnCall("G3", "G4", [NoResponse EXCEPT !.names = raw])

\* G4[Extract and clean model names] --> G5
G4 ==
    /\ pc = "G4"
    /\ extracted' = [NoResponse EXCEPT !.names = CleanModelNames(response.names)]
    /\ pc' = "G5"
    /\ UNCHANGED <<validation_data, system_prompt, tracking, iteration, round,
                   all_results, idx, request, response, inflight,
                   final_results, history>>
    /\ UNCHANGED nbvars

\* G5[Store prediction with paper and gold labels], then the next paper
G5 ==
    /\ pc = "G5"
    /\ predictions' = Append(predictions,
                             [paper |-> validation_data[idx].id,
                              gold |-> validation_data[idx].gold,
                              prediction |-> extracted.names])
    /\ idx' = idx + 1
    /\ request' = NoRequest
    /\ response' = NoResponse
    /\ extracted' = NoResponse
    /\ pc' = "G1"
    /\ UNCHANGED <<validation_data, system_prompt, tracking, iteration,
                   zero_shot_prompt, evaluations, avg_score, all_results,
                   inflight, final_results, history>>
    /\ UNCHANGED nbvars

\* variant: the evaluations of the earlier rounds are kept in the list
H_accumulates ==
    /\ pc = "H"
    /\ idx' = 1
    /\ Step("H")
    /\ pc' = "H1"
    /\ UNCHANGED <<validation_data, system_prompt, tracking, iteration,
                   zero_shot_prompt, predictions, evaluations, avg_score,
                   all_results, request, response, extracted, inflight,
                   final_results, calls>>
    /\ UNCHANGED nbvars

\* H[Evaluate predictions using o3-mini as judge] : enters EvaluatePredictions
H ==
    /\ pc = "H"
    /\ evaluations' = <<>>
    /\ idx' = 1
    /\ Step("H")
    /\ pc' = "H1"
    /\ UNCHANGED <<validation_data, system_prompt, tracking, iteration,
                   zero_shot_prompt, predictions, avg_score, all_results,
                   request, response, extracted, inflight, final_results,
                   calls>>
    /\ UNCHANGED nbvars

(* ---- EvaluatePredictions ---- *)

\* variant: the average is taken before the last prediction is evaluated
H1_early ==
    /\ pc = "H1"
    /\ pc' = IF idx < Len(predictions) THEN "H2" ELSE "H5"
    /\ UNCHANGED <<validation_data, system_prompt, tracking, iteration, round,
                   all_results, locals, inflight, final_results, history>>
    /\ UNCHANGED nbvars

\* H1[For each prediction] --> H2, or on to H5 when none is left
H1 ==
    /\ pc = "H1"
    /\ pc' = IF idx <= Len(predictions) THEN "H2" ELSE "H5"
    /\ UNCHANGED <<validation_data, system_prompt, tracking, iteration, round,
                   all_results, locals, inflight, final_results, history>>
    /\ UNCHANGED nbvars

\* H2[Evaluate with o3-mini] --> H3
H2 ==
    \/ StartCall("H2", [kind |-> "judge", iteration |-> iteration,
                        prompt |-> NoPrompt,
                        subject |-> predictions[idx].paper, evals |-> <<>>])
    \/ \E s \in Scores, e \in Explanations :
           ReturnCall("H2", "H3",
                      [NoResponse EXCEPT !.score = s, !.explanation = e])

\* H3[Calculate score and explanation] --> H4
H3 ==
    /\ pc = "H3"
    /\ extracted' = [NoResponse EXCEPT !.score = response.score,
                                       !.explanation = response.explanation]
    /\ pc' = "H4"
    /\ UNCHANGED <<validation_data, system_prompt, tracking, iteration, round,
                   all_results, idx, request, response, inflight,
                   final_results, history>>
    /\ UNCHANGED nbvars

\* H4[Store evaluation results], then the next prediction
H4 ==
    /\ pc = "H4"
    /\ evaluations' = Append(evaluations,
                             [paper |-> predictions[idx].paper,
                              score |-> extracted.score,
                              explanation |-> extracted.explanation])
    /\ idx' = idx + 1
    /\ request' = NoRequest
    /\ response' = NoResponse
    /\ extracted' = NoResponse
    /\ pc' = "H1"
    /\ UNCHANGED <<validation_data, system_prompt, tracking, iteration,
                   zero_shot_prompt, predictions, avg_score, all_results,
                   inflight, final_results, history>>
    /\ UNCHANGED nbvars

\* variant: the results of the iteration are not saved before the best-score test
H5_skipSave ==
    /\ pc = "H5"
    /\ avg_score' = AverageScore(evaluations)
    /\ pc' = "J"
    /\ UNCHANGED <<validation_data, system_prompt, tracking, iteration,
                   zero_shot_prompt, predictions, evaluations, all_results,
                   locals, inflight, final_results, history>>
    /\ UNCHANGED nbvars

\* H5[Calculate average score], and EvaluatePredictions returns to I
H5 ==
    /\ pc = "H5"
    /\ avg_score' = AverageScore(evaluations)
    /\ pc' = "I"
    /\ UNCHANGED <<validation_data, system_prompt, tracking, iteration,
                   zero_shot_prompt, predictions, evaluations, all_results,
                   locals, inflight, final_results, history>>
    /\ UNCHANGED nbvars

(* ---- main flowchart, continued ---- *)

\* variant: the results of the round replace the ones saved before
I_overwrites ==
    /\ pc = "I"
    /\ all_results' = <<[iteration |-> iteration,
                         system_prompt |-> system_prompt,
                         predictions |-> predictions,
                         evaluations |-> evaluations,
                         avg_score |-> avg_score]>>
    /\ Step("I")
    /\ pc' = "J"
    /\ UNCHANGED <<validation_data, system_prompt, tracking, iteration, round,
                   locals, inflight, final_results, calls>>
    /\ UNCHANGED nbvars

\* I[Save results for current iteration] --> J
I ==
    /\ pc = "I"
    /\ all_results' = Append(all_results,
                             [iteration |-> iteration,
                              system_prompt |-> system_prompt,
                              predictions |-> predictions,
                              evaluations |-> evaluations,
                              avg_score |-> avg_score])
    /\ Step("I")
    /\ pc' = "J"
    /\ UNCHANGED <<validation_data, system_prompt, tracking, iteration, round,
                   locals, inflight, final_results, calls>>
    /\ UNCHANGED nbvars

\* variant: every round is taken as the best one
J_alwaysYes ==
    /\ pc = "J"
    /\ pc' = "K"
    /\ Step("J")
    /\ UNCHANGED <<validation_data, system_prompt, tracking, iteration, round,
                   all_results, locals, inflight, final_results, calls>>
    /\ UNCHANGED nbvars

\* J{Check if best score} -->|Yes| K, -->|No| L
J ==
    /\ pc = "J"
    /\ \/ IsBestScore(avg_score, best_score) /\ pc' = "K"
       \/ IsNotBestScore(avg_score, best_score) /\ pc' = "L"
    /\ Step("J")
    /\ UNCHANGED <<validation_data, system_prompt, tracking, iteration, round,
                   all_results, locals, inflight, final_results, calls>>
    /\ UNCHANGED nbvars

\* variant: the best prompt is not updated with the score and the iteration
K_stalePrompt ==
    /\ pc = "K"
    /\ best_score' = avg_score
    /\ best_iteration' = iteration
    /\ Step("K")
    /\ pc' = "M"
    /\ UNCHANGED <<validation_data, system_prompt, best_prompt, iteration,
                   round, all_results, locals, inflight, final_results, calls>>
    /\ UNCHANGED nbvars

\* variant: the final results are also written whenever the best changes
K_savesFinal ==
    /\ pc = "K"
    /\ best_score' = avg_score
    /\ best_prompt' = system_prompt
    /\ best_iteration' = iteration
    /\ final_results' = Append(final_results,
                               [best_score |-> avg_score,
                                best_prompt |-> system_prompt,
                                best_iteration |-> iteration,
                                all_results |-> all_results])
    /\ Step("K")
    /\ pc' = "M"
    /\ UNCHANGED <<validation_data, system_prompt, iteration, round,
                   all_results, locals, inflight, calls>>
    /\ UNCHANGED nbvars

\* variant: the best iteration is not recorded with the score and the prompt
K_keepsIteration ==
    /\ pc = "K"
    /\ best_score' = avg_score
    /\ best_prompt' = system_prompt
    /\ Step("K")
    /\ pc' = "M"
    /\ UNCHANGED <<validation_data, system_prompt, best_iteration, iteration,
                   round, all_results, locals, inflight, final_results, calls>>
    /\ UNCHANGED nbvars

\* K[Update best score, prompt, iteration] --> M
K ==
    /\ pc = "K"
    /\ best_score' = avg_score
    /\ best_prompt' = system_prompt
    /\ best_iteration' = iteration
    /\ Step("K")
    /\ pc' = "M"
    /\ UNCHANGED <<validation_data, system_prompt, iteration, round,
                   all_results, locals, inflight, final_results, calls>>
    /\ UNCHANGED nbvars

\* variant: the No branch records the round as the best iteration
L_updatesBest ==
    /\ pc = "L"
    /\ best_iteration' = iteration
    /\ Step("L")
    /\ pc' = "M"
    /\ UNCHANGED <<validation_data, system_prompt, best_score, best_prompt,
                   iteration, round, all_results, locals, inflight,
                   final_results, calls>>
    /\ UNCHANGED nbvars

\* L[Continue with next iteration] --> M
L ==
    /\ pc = "L"
    /\ Step("L")
    /\ pc' = "M"
    /\ UNCHANGED <<validation_data, system_prompt, tracking, iteration, round,
                   all_results, locals, inflight, final_results, calls>>
    /\ UNCHANGED nbvars

\* variant: the two branches of the test are swapped
M_swapped ==
    /\ pc = "M"
    /\ pc' = IF IsLastIteration(iteration) THEN "N" ELSE "P"
    /\ Step("M")
    /\ UNCHANGED <<validation_data, system_prompt, tracking, iteration, round,
                   all_results, locals, inflight, final_results, calls>>
    /\ UNCHANGED nbvars

\* M{Last iteration?} -->|No| N, -->|Yes| P
M ==
    /\ pc = "M"
    /\ pc' = IF IsLastIteration(iteration) THEN "P" ELSE "N"
    /\ Step("M")
    /\ UNCHANGED <<validation_data, system_prompt, tracking, iteration, round,
                   all_results, locals, inflight, final_results, calls>>
    /\ UNCHANGED nbvars

\* N[Improve prompt using metaprompting] : enters ImprovePrompt
N ==
    /\ pc = "N"
    /\ Step("N")
    /\ pc' = "N1"
    /\ UNCHANGED <<validation_data, system_prompt, tracking, iteration, round,
                   all_results, locals, inflight, final_results, calls>>
    /\ UNCHANGED nbvars

(* ---- ImprovePrompt ---- *)

\* N1[Generate metaprompt with all evaluations] --> N2
N1 ==
    /\ pc = "N1"
    /\ request' = [kind |-> "improve", iteration |-> iteration,
                   prompt |-> system_prompt, subject |-> 0,
                   evals |-> evaluations]
    /\ pc' = "N2"
    /\ UNCHANGED <<validation_data, system_prompt, tracking, iteration, round,
                   all_results, idx, response, extracted, inflight,
                   final_results, history>>
    /\ UNCHANGED nbvars

\* N2[Send to o3-mini for improvement] --> N3
N2 ==
    \/ StartCall("N2", request)
    \/ \E p \in Prompts :
           ReturnCall("N2", "N3", [NoResponse EXCEPT !.prompt = p])

\* N3[Get improved system prompt], and ImprovePrompt returns to O
N3 ==
    /\ pc = "N3"
    /\ extracted' = [NoResponse EXCEPT !.prompt = response.prompt]
    /\ pc' = "O"
    /\ UNCHANGED <<validation_data, system_prompt, tracking, iteration, round,
                   all_results, idx, request, response, inflight,
                   final_results, history>>
    /\ UNCHANGED nbvars

\* variant: the improved prompt is dropped and the old one kept
O_keepsPrompt ==
    /\ pc = "O"
    /\ request' = NoRequest
    /\ response' = NoResponse
    /\ extracted' = NoResponse
    /\ Step("O")
    /\ pc' = "E"
    /\ UNCHANGED <<validation_data, system_prompt, tracking, iteration, round,
                   all_results, idx, inflight, final_results, calls>>
    /\ UNCHANGED nbvars

\* variant: the improved prompt is recorded as the best prompt at once
O_recordsBest ==
    /\ pc = "O"
    /\ system_prompt' = extracted.prompt
    /\ best_prompt' = extracted.prompt
    /\ request' = NoRequest
    /\ response' = NoResponse
    /\ extracted' = NoResponse
    /\ Step("O")
    /\ pc' = "E"
    /\ UNCHANGED <<validation_data, best_score, best_iteration, iteration,
                   round, all_results, idx, inflight, final_results, calls>>
    /\ UNCHANGED nbvars

\* O[Update system prompt] --> E
O ==
    /\ pc = "O"
    /\ system_prompt' = extracted.prompt
    /\ request' = NoRequest
    /\ response' = NoResponse
    /\ extracted' = NoResponse
    /\ Step("O")
    /\ pc' = "E"
    /\ UNCHANGED <<validation_data, tracking, iteration, round, all_results,
                   idx, inflight, final_results, calls>>
    /\ UNCHANGED nbvars

\* P[End loop] --> Q
P ==
    /\ pc = "P"
    /\ Step("P")
    /\ pc' = "Q"
    /\ UNCHANGED <<validation_data, system_prompt, tracking, iteration, round,
                   all_results, locals, inflight, final_results, calls>>
    /\ UNCHANGED nbvars

\* Q[Save final results] --> R
Q ==
    /\ pc = "Q"
    /\ final_results' = Append(final_results,
                               [best_score |-> best_score,
                                best_prompt |-> best_prompt,
                                best_iteration |-> best_iteration,
                                all_results |-> all_results])
    /\ Step("Q")
    /\ pc' = "R"
    /\ UNCHANGED <<validation_data, system_prompt, tracking, iteration, round,
                   all_results, locals, inflight, calls>>
    /\ UNCHANGED nbvars

\* R[End]: pc = "R" is the end of the run; no edge leaves it.

(* ---- failure of a model call ---- *)

\* variant: the failure is caught and the call made again
FailCall_retry ==
    /\ pc \in {"G3_wait", "H2_wait", "N2_wait"}
    /\ request \in inflight
    /\ inflight' = inflight \ {request}
    /\ calls' = Append(calls, [req |-> request, outcome |-> "error",
                               new_prompt |-> NoPrompt])
    /\ pc' = IF pc = "G3_wait" THEN "G3"
             ELSE IF pc = "H2_wait" THEN "H2" ELSE "N2"
    /\ UNCHANGED <<validation_data, system_prompt, tracking, iteration, round,
                   all_results, locals, final_results, steps>>
    /\ UNCHANGED nbvars

\* The call in flight raises; nothing catches it, so the run ends there.
FailCall ==
    /\ pc \in {"G3_wait", "H2_wait", "N2_wait"}
    /\ request \in inflight
    /\ inflight' = inflight \ {request}
    /\ calls' = Append(calls, [req |-> request, outcome |-> "error",
                               new_prompt |-> NoPrompt])
    /\ pc' = "Failed"
    /\ UNCHANGED <<validation_data, system_prompt, tracking, iteration, round,
                   all_results, locals, final_results, steps>>
    /\ UNCHANGED nbvars

Run ==
    \/ A \/ B \/ C \/ D \/ E \/ F \/ G \/ G1 \/ G2 \/ G3 \/ G4 \/ G5
    \/ H \/ H1 \/ H2 \/ H3 \/ H4 \/ H5 \/ I \/ J \/ K \/ L \/ M
    \/ N \/ N1 \/ N2 \/ N3 \/ O \/ P \/ Q

Next == Run \/ FailCall

Spec == Init /\ [][Next]_vars

\* Every model call returns: no call fails, and the driver keeps running.
SpecReturns == Init /\ [][Run]_vars /\ WF_vars(Run)

(***************************************************************************)
(* The notebooks.  A notebook is run cell by cell; cell names the cell or  *)
(* statement that executes next.  Text is a sequence of characters: the    *)
(* characters with a meaning for JSON are named, any other element stands  *)
(* for a run of plain characters.                                          *)
(***************************************************************************)

(* ---- bounds ---- *)
MaxLen == 2                 \* longest text drawn for a location

DQ == "dq"                  \* the double quote
BS == "bs"                  \* the backslash
NL == "nl"                  \* the line feed
Chars == {"a", "n", DQ, BS, NL}
Texts(n) == UNION {[1 .. k -> Chars] : k \in 0 .. n}

RECURSIVE Flatten(_)
Flatten(seqs) ==
    IF seqs = <<>> THEN <<>> ELSE Head(seqs) \o Flatten(Tail(seqs))

\* variant: the backslash is written as it is
EscapeChar_rawBackslash(c) ==
    IF c = DQ THEN <<BS, DQ>>
    ELSE IF c = NL THEN <<BS, "n">>
    ELSE <<c>>

\* json.dumps of one character of a str
EscapeChar(c) ==
    IF c = DQ THEN <<BS, DQ>>
    ELSE IF c = BS THEN <<BS, BS>>
    ELSE IF c = NL THEN <<BS, "n">>
    ELSE <<c>>

\* json.dumps of a str
JsonString(str) ==
    <<DQ>> \o Flatten([i \in 1 .. Len(str) |-> EscapeChar(str[i])]) \o <<DQ>>

RECURSIVE JsonMembers(_, _, _)
JsonMembers(pairs, item_sep, key_sep) ==
    IF pairs = <<>> THEN <<>>
    ELSE JsonString(Head(pairs)[1]) \o key_sep \o JsonString(Head(pairs)[2])
         \o (IF Len(pairs) > 1 THEN item_sep ELSE <<>>)
         \o JsonMembers(Tail(pairs), item_sep, key_sep)

\* json.dumps of a dict of str, default separators ", " and ": "
json_dumps(pairs) ==
    <<"{">> \o JsonMembers(pairs, <<",", " ">>, <<":", " ">>) \o <<"}">>

\* the JSON text the API puts in function.arguments: no blanks
ApiEscapeChar(c) ==
    IF c = DQ THEN <<BS, DQ>>
    ELSE IF c = BS THEN <<BS, BS>>
    ELSE IF c = NL THEN <<BS, "n">>
    ELSE <<c>>
ApiString(str) ==
    <<DQ>> \o Flatten([i \in 1 .. Len(str) |-> ApiEscapeChar(str[i])]) \o <<DQ>>
RECURSIVE ApiMembers(_)
ApiMembers(pairs) ==
    IF pairs = <<>> THEN <<>>
    ELSE ApiString(Head(pairs)[1]) \o <<":">> \o ApiString(Head(pairs)[2])
         \o (IF Len(pairs) > 1 THEN <<",">> ELSE <<>>)
         \o ApiMembers(Tail(pairs))
ApiArguments(pairs) == <<"{">> \o ApiMembers(pairs) \o <<"}">>

\* json.loads: a string is read from the character after its opening quote
RECURSIVE ScanString(_, _, _)
ScanString(t, i, acc) ==
    IF i > Len(t) THEN [val |-> acc, next |-> i]
    ELSE IF t[i] = DQ THEN [val |-> acc, next |-> i + 1]
    ELSE IF t[i] = BS /\ i < Len(t)
         THEN ScanString(t, i + 2,
                         Append(acc, IF t[i + 1] = "n" THEN NL ELSE t[i + 1]))
    ELSE ScanString(t, i + 1, Append(acc, t[i]))

RECURSIVE SkipBlanks(_, _)
SkipBlanks(t, i) ==
    IF i <= Len(t) /\ t[i] = " " THEN SkipBlanks(t, i + 1) ELSE i

RECURSIVE ParseMembers(_, _, _)
ParseMembers(t, i, acc) ==
    LET k0 == SkipBlanks(t, i) IN
    IF k0 > Len(t) \/ t[k0] # DQ THEN acc
    ELSE LET key == ScanString(t, k0 + 1, <<>>)
             c0 == SkipBlanks(t, key.next)
             v0 == SkipBlanks(t, c0 + 1)
         IN  IF v0 > Len(t) \/ t[c0] # ":" \/ t[v0] # DQ THEN acc
             ELSE LET val == ScanString(t, v0 + 1, <<>>)
                      e0 == SkipBlanks(t, val.next)
                      more == Append(acc, <<key.val, val.val>>)
                  IN  IF e0 <= Len(t) /\ t[e0] = ","
                      THEN ParseMembers(t, e0 + 1, more)
                      ELSE more

\* json.loads of the text of an object of str: its members in order
json_loads(t) ==
    IF Len(t) >= 2 /\ t[1] = "{" THEN ParseMembers(t, 2, <<>>) ELSE <<>>

\* d[key] of a decoded object (the last member of that name), None if absent
RECURSIVE Lookup(_, _)
Lookup(pairs, key) ==
    IF pairs = <<>> THEN None
    ELSE IF pairs[Len(pairs)][1] = key THEN pairs[Len(pairs)][2]
    ELSE Lookup(SubSeq(pairs, 1, Len(pairs) - 1), key)

LOCATION == <<"location">>
TEMPERATURE == <<"temperature">>
UNIT == <<"unit">>
FAHRENHEIT == <<"fahrenheit">>
CELSIUS == <<"celsius">>
GET_CURRENT_WEATHER == <<"get_current_weather">>

\* def get_current_weather(location, unit="fahrenheit")
get_current_weather(location, unit) ==
    json_dumps(<< <<LOCATION, location>>,
                  <<TEMPERATURE, <<"50">>>>,
                  <<UNIT, IF unit = None THEN FAHRENHEIT ELSE unit>> >>)

\* a tool call of the model's reply
ToolCall(id, arguments) ==
    [id |-> id, function |-> [arguments |-> arguments,
                              name |-> GET_CURRENT_WEATHER]]

\* the arguments the model generates for get_current_weather
GeneratedArguments ==
    {ApiArguments(<< <<LOCATION, l>> >>) : l \in Texts(MaxLen)}
        \cup {ApiArguments(<< <<LOCATION, l>>, <<UNIT, u>> >>) :
                 l \in Texts(MaxLen), u \in {CELSIUS, FAHRENHEIT}}

\* print(...): one entry of the cell's output
Output(kind, value) ==
    printed' = Append(printed, [kind |-> kind, value |-> value])

(* ---- function_calling.ipynb: calling the tool with the arguments ---- *)

\* response = get_chat_completion(messages, tools=tools): a tool call
WeatherRequest ==
    /\ cell = "start"
    /\ \E a \in GeneratedArguments :
           assistant_message' =
               [NoMessage EXCEPT !.role = "assistant",
                                 !.tool_calls = <<ToolCall(<<"call_1">>, a)>>]
    /\ cell' = "weather_args"
    /\ UNCHANGED <<messages, args, weather, cot_response, final_response,
                   math_reasoning, question, printed, sent>>
    /\ UNCHANGED <<loopvars, palvars>>

\* args = json.loads(response.tool_calls[0].function.arguments); print(args)
WeatherArgs ==
    /\ cell = "weather_args"
    /\ LET d == json_loads(assistant_message.tool_calls[1].function.arguments)
       IN  /\ args' = [location |-> Lookup(d, LOCATION), unit |-> Lookup(d, UNIT)]
           /\ Output("args", d)
    /\ cell' = "weather_call"
    /\ UNCHANGED <<messages, assistant_message, weather, cot_response,
                   final_response, math_reasoning, question, sent>>
    /\ UNCHANGED <<loopvars, palvars>>

\* get_current_weather(**args)
WeatherCall ==
    /\ cell = "weather_call"
    /\ weather' = get_current_weather(args.location, args.unit)
    /\ cell' = "weather_done"
    /\ UNCHANGED <<messages, assistant_message, args, cot_response,
                   final_response, math_reasoning, question, printed, sent>>
    /\ UNCHANGED <<loopvars, palvars>>

(* ---- function_calling.ipynb: Function Calling Response for Model Feedback ---- *)

USER_QUESTION == <<"What's the weather like in Boston!">>

\* the replies of get_chat_completion(messages, tools=tools, tool_choice="auto"):
\* one tool call, two tool calls, or an answer without a tool call
ToolCallReplies ==
    {<<ToolCall(<<"call_1">>, a)>> : a \in GeneratedArguments}
        \cup {<<ToolCall(<<"call_1">>, ApiArguments(<< <<LOCATION, l>> >>)),
                ToolCall(<<"call_2">>, ApiArguments(<< <<LOCATION, <<"a">>>> >>))>> :
                 l \in Texts(MaxLen)}
        \cup {<<>>}

\* str(assistant_message["tool_calls"][0]["function"]); the quoting of the
\* dict's repr is left out
StrOfFunction(function) ==
    <<"{'arguments': ">> \o function.arguments \o <<", 'name': ">>
        \o function.name \o <<"}">>

\* a request to the chat-completion API: the messages as they are when sent
Request(kind, msgs) == [kind |-> kind, messages |-> msgs]

\* cell 23: the conversation is started and the model asked
FeedbackAsk ==
    /\ cell = "start"
    /\ LET user == [NoMessage EXCEPT !.role = "user", !.content = USER_QUESTION]
       IN  /\ messages' = <<user>>
           /\ sent' = Append(sent, Request("feedback", <<user>>))
           /\ \E calls_ \in ToolCallReplies :
                  IF calls_ = <<>>
                  THEN \* tool_calls is None: the subscript raises, the cell stops
                       /\ assistant_message' =
                              [NoMessage EXCEPT !.role = "assistant",
                                                !.content = <<"a">>]
                       /\ cell' = "error"
                  ELSE /\ assistant_message' =
                              [NoMessage EXCEPT
                                  !.role = "assistant",
                                  !.tool_calls = calls_,
                                  !.content = StrOfFunction(calls_[1].function)]
                       /\ cell' = "feedback_show_assistant"
    /\ UNCHANGED <<args, weather, cot_response, final_response,
                   math_reasoning, question, printed>>
    /\ UNCHANGED <<loopvars, palvars>>

\* cell 24: print(assistant_message)
FeedbackShowAssistant ==
    /\ cell = "feedback_show_assistant"
    /\ Output("assistant_message", <<assistant_message>>)
    /\ cell' = "feedback_show_messages"
    /\ UNCHANGED <<messages, assistant_message, args, weather, cot_response,
                   final_response, math_reasoning, question, sent>>
    /\ UNCHANGED <<loopvars, palvars>>

\* cells 26, 28, 30: the messages are shown
FeedbackShowMessages ==
    /\ cell \in {"feedback_show_messages", "feedback_shown_2", "feedback_shown_3"}
    /\ Output("messages", messages)
    /\ cell' = IF cell = "feedback_show_messages" THEN "feedback_append"
               ELSE IF cell = "feedback_shown_2" THEN "feedback_tool"
               ELSE "feedback_final"
    /\ UNCHANGED <<messages, assistant_message, args, weather, cot_response,
                   final_response, math_reasoning, question, sent>>
    /\ UNCHANGED <<loopvars, palvars>>

\* cell 27: messages.append(assistant_message)
FeedbackAppend ==
    /\ cell = "feedback_append"
    /\ messages' = Append(messages, assistant_message)
    /\ cell' = "feedback_shown_2"
    /\ UNCHANGED <<assistant_message, args, weather, cot_response,
                   final_response, math_reasoning, question, printed, sent>>
    /\ UNCHANGED <<loopvars, palvars>>

\* variant: the tool message answers the last tool call, not the first
FeedbackTool_lastCall ==
    /\ cell = "feedback_tool"
    /\ LET w == get_current_weather(
                    messages[2].tool_calls[1].function.arguments, None)
           last == assistant_message.tool_calls[Len(assistant_message.tool_calls)]
       IN  /\ weather' = w
           /\ messages' = Append(messages,
                  [NoMessage EXCEPT !.role = "tool",
                                    !.tool_call_id = last.id,
                                    !.name = last.function.name,
                                    !.content = w])
    /\ cell' = "feedback_shown_3"
    /\ UNCHANGED <<assistant_message, args, cot_response, final_response,
                   math_reasoning, question, printed, sent>>
    /\ UNCHANGED <<loopvars, palvars>>

\* cell 29: the weather is fetched and appended as the tool message
FeedbackTool ==
    /\ cell = "feedback_tool"
    /\ LET w == get_current_weather(
                    messages[2].tool_calls[1].function.arguments, None)
       IN  /\ weather' = w
           /\ messages' = Append(messages,
                  [NoMessage EXCEPT
                      !.role = "tool",
                      !.tool_call_id = assistant_message.tool_calls[1].id,
                      !.name = assistant_message.tool_calls[1].function.name,
                      !.content = w])
    /\ cell' = "feedback_shown_3"
    /\ UNCHANGED <<assistant_message, args, cot_response, final_response,
                   math_reasoning, question, printed, sent>>
    /\ UNCHANGED <<loopvars, palvars>>

\* cell 31: final_response = get_chat_completion(messages, tools=tools)
FeedbackFinal ==
    /\ cell = "feedback_final"
    /\ sent' = Append(sent, Request("final", messages))
    /\ final_response' = <<"a">>
    /\ Output("final_response", <<"a">>)
    /\ cell' = "feedback_done"
    /\ UNCHANGED <<messages, assistant_message, args, weather, cot_response,
                   math_reasoning, question>>
    /\ UNCHANGED <<loopvars, palvars>>

(* ---- chain_of_thought.ipynb: Inner Monologue ---- *)

\* the delimiters and the prefix are single elements of a text
thinking_delimiter == "<thinking>"
thinking_delimiter_end == "</thinking>"
response_delimiter == "<response>"
response_delimiter_end == "</response>"
RESPONSE_PREFIX == "Response to the user: "
NO_FINAL_RESPONSE == <<"No final response found">>
SYSTEM_MESSAGE == <<"system_message">>

\* str.split(sep): the pieces between the occurrences of sep
RECURSIVE Split(_, _, _)
Split(str, sep, piece) ==
    IF str = <<>> THEN <<piece>>
    ELSE IF Head(str) = sep THEN <<piece>> \o Split(Tail(str), sep, <<>>)
    ELSE Split(Tail(str), sep, Append(piece, Head(str)))

\* final_response.split("Response to the user: ")
SplitPrefix(str) == Split(str, RESPONSE_PREFIX, <<>>)

\* the texts of a reasoning or of an answer: no delimiter, the words of the
\* prefix may occur
MaxText == 2
PlainTexts == UNION {[1 .. k -> {"a", NL, RESPONSE_PREFIX}] : k \in 0 .. MaxText}

\* a reply in the format the system message asks for
Formatted(reasoning, answer, gap) ==
    <<thinking_delimiter>> \o gap \o reasoning \o gap \o <<thinking_delimiter_end>> \o gap
        \o <<response_delimiter>> \o gap \o <<RESPONSE_PREFIX>> \o answer
        \o gap \o <<response_delimiter_end>> \o gap

\* any short reply, in the format or not
MaxReply == 4
FreeReplies ==
    UNION {[1 .. k -> {response_delimiter, response_delimiter_end,
                       RESPONSE_PREFIX, "a"}] : k \in 0 .. MaxReply}
FormattedReplies ==
    {Formatted(r, x, g) : r \in PlainTexts, x \in PlainTexts,
                          g \in {<<>>, <<NL>>}}

\* cell 11: response = get_chat_completion(messages); print(response)
MonologueAsk ==
    /\ cell = "start"
    /\ LET msgs == <<[NoMessage EXCEPT !.role = "system",
                                      !.content = SYSTEM_MESSAGE],
                     [NoMessage EXCEPT !.role = "user",
                          !.content = <<"What is the price of the Mini Cheeseburger?">>]>>
       IN  /\ messages' = msgs
           /\ sent' = Append(sent, Request("monologue", msgs))
    /\ cot_response' \in FreeReplies \cup FormattedReplies
    /\ cell' = "monologue_extract"
    /\ UNCHANGED <<assistant_message, args, weather, final_response,
                   math_reasoning, question, printed>>
    /\ UNCHANGED <<loopvars, palvars>>

\* cell 12: extract the final response only (try / except)
MonologueExtract ==
    /\ cell = "monologue_extract"
    /\ LET opened == Split(cot_response, response_delimiter, <<>>) IN
       IF Len(opened) < 2
       THEN \* [1] raises IndexError
            /\ Output("except", NO_FINAL_RESPONSE)
            /\ UNCHANGED final_response
       ELSE LET section == Split(opened[2], response_delimiter_end, <<>>)[1]
                parts == SplitPrefix(section)
            IN  IF Len(parts) < 2
                THEN \* the first assignment is done, then [1] raises
                     /\ final_response' = section
                     /\ Output("except", NO_FINAL_RESPONSE)
                ELSE /\ final_response' = parts[2]
                     /\ Output("final_response", parts[2])
    /\ cell' = "monologue_done"
    /\ UNCHANGED <<messages, assistant_message, args, weather, cot_response,
                   math_reasoning, question, sent>>
    /\ UNCHANGED <<loopvars, palvars>>

(* ---- chain_of_thought.ipynb: Testing CoT ---- *)

user_questions ==
    <<"Do you have a kids' menu?", "Do you have any vegan options?",
      "How much for the shoes?", "Do you have mac & cheese?",
      "How much for the BBQ?", "What's the price for the mac & cheese?",
      "What's your most popular dish?">>

TestReplies == {Formatted(<<"a">>, <<"a">>, <<NL>>), <<"a">>}

\* the cell starts: the list is defined and the for loop entered
TestLoopEnter ==
    /\ cell = "start"
    /\ question' = 1
    /\ cell' = "test_loop"
    /\ UNCHANGED <<messages, assistant_message, args, weather, cot_response,
                   final_response, math_reasoning, printed, sent>>
    /\ UNCHANGED <<loopvars, palvars>>

\* variant: the conversation is kept and grows from question to question
TestLoopBody_keepsHistory ==
    /\ cell = "test_loop"
    /\ question <= Len(user_questions)
    /\ LET msgs == (IF messages = <<>>
                    THEN <<[NoMessage EXCEPT !.role = "system",
                                             !.content = SYSTEM_MESSAGE]>>
                    ELSE Append(messages,
                                [NoMessage EXCEPT !.role = "assistant",
                                                  !.content = cot_response]))
                   \o <<[NoMessage EXCEPT !.role = "user",
                             !.content = <<user_questions[question]>>]>>
       IN  /\ messages' = msgs
           /\ sent' = Append(sent, Request("test", msgs))
    /\ \E reply \in TestReplies :
           /\ cot_response' = reply
           /\ printed' = printed \o
                  <<[kind |-> "Question:", value |-> <<user_questions[question]>>],
                    [kind |-> "Response:", value |-> reply],
                    [kind |-> "rule", value |-> <<>>]>>
    /\ question' = question + 1
    /\ UNCHANGED <<cell, assistant_message, args, weather, final_response,
                   math_reasoning>>
    /\ UNCHANGED <<loopvars, palvars>>

\* one pass of: for question in user_questions
TestLoopBody ==
    /\ cell = "test_loop"
    /\ question <= Len(user_questions)
    /\ LET msgs == <<[NoMessage EXCEPT !.role = "system",
                                      !.content = SYSTEM_MESSAGE],
                     [NoMessage EXCEPT !.role = "user",
                          !.content = <<user_questions[question]>>]>>
       IN  /\ messages' = msgs
           /\ sent' = Append(sent, Request("test", msgs))
    /\ \E reply \in TestReplies :
           /\ cot_response' = reply
           /\ printed' = printed \o
                  <<[kind |-> "Question:", value |-> <<user_questions[question]>>],
                    [kind |-> "Response:", value |-> reply],
                    [kind |-> "rule", value |-> <<>>]>>
    /\ question' = question + 1
    /\ UNCHANGED <<cell, assistant_message, args, weather, final_response,
                   math_reasoning>>
    /\ UNCHANGED <<loopvars, palvars>>

\* the list is exhausted
TestLoopExit ==
    /\ cell = "test_loop"
    /\ question > Len(user_questions)
    /\ cell' = "test_done"
    /\ UNCHANGED <<messages, assistant_message, args, weather, cot_response,
                   final_response, math_reasoning, question, printed, sent>>
    /\ UNCHANGED <<loopvars, palvars>>

(* ---- chain_of_thought.ipynb: Handling Refusals ---- *)

\* the message of a parsed completion: a refusal text or None, a parsed
\* MathReasoning or None
RefusalTexts == {<<"I'm sorry, I cannot assist with that request.">>, <<"a">>}
ParsedResults == {<<"steps", "final_answer">>, <<"a">>}
ParsedMessages ==
    [refusal : RefusalTexts \cup {None}, parsed : ParsedResults \cup {None}]

\* Python truth value of an Optional[str]
Truthy(v) == v # None /\ v # <<>>

\* completion = client.beta.chat.completions.parse(...);
\* math_reasoning = completion.choices[0].message
RefusalParse ==
    /\ cell = "start"
    /\ LET msgs == <<[NoMessage EXCEPT !.role = "system",
                          !.content = <<"You are a helpful math tutor.">>],
                     [NoMessage EXCEPT !.role = "user",
                          !.content = <<"how can I solve 8x + 7 = -23">>]>>
       IN  /\ messages' = msgs
           /\ sent' = Append(sent, Request("parse", msgs))
    /\ math_reasoning' \in ParsedMessages
    /\ cell' = "refusal_check"
    /\ UNCHANGED <<assistant_message, args, weather, cot_response,
                   final_response, question, printed>>
    /\ UNCHANGED <<loopvars, palvars>>

\* variant: the parsed result is looked at first
RefusalCheck_parsedFirst ==
    /\ cell = "refusal_check"
    /\ IF Truthy(math_reasoning.parsed)
       THEN Output("parsed", math_reasoning.parsed)
       ELSE Output("refusal", math_reasoning.refusal)
    /\ cell' = "refusal_done"
    /\ UNCHANGED <<messages, assistant_message, args, weather, cot_response,
                   final_response, math_reasoning, question, sent>>
    /\ UNCHANGED <<loopvars, palvars>>

\* if (math_reasoning.refusal): print(refusal) else: print(parsed)
RefusalCheck ==
    /\ cell = "refusal_check"
    /\ IF Truthy(math_reasoning.refusal)
       THEN Output("refusal", math_reasoning.refusal)
       ELSE Output("parsed", math_reasoning.parsed)
    /\ cell' = "refusal_done"
    /\ UNCHANGED <<messages, assistant_message, args, weather, cot_response,
                   final_response, math_reasoning, question, sent>>
    /\ UNCHANGED <<loopvars, palvars>>

(* ---- pal.ipynb: the few-shot programs of DATE_UNDERSTANDING_PROMPT ---- *)

\* datetime(year, month, day): midnight of the day
datetime(y, m, d) == [year |-> y, month |-> m, day |-> d, hour |-> 0]

\* relativedelta(years=, weeks=, days=, hours=): weeks are kept as 7 days
relativedelta(years, weeks, days, hours) ==
    [years |-> years, days |-> days + 7 * weeks, hours |-> hours]
NoDelta == relativedelta(0, 0, 0, 0)
Negated(delta) ==
    [years |-> 0 - delta.years, days |-> 0 - delta.days,
     hours |-> 0 - delta.hours]

IsLeap(y) == (y % 4 = 0 /\ y % 100 # 0) \/ y % 400 = 0
DaysInMonth(y, m) ==
    IF m = 2 THEN (IF IsLeap(y) THEN 29 ELSE 28)
    ELSE IF m \in {4, 6, 9, 11} THEN 30 ELSE 31

NextDay(dt) ==
    IF dt.day < DaysInMonth(dt.year, dt.month)
    THEN [dt EXCEPT !.day = dt.day + 1]
    ELSE IF dt.month < 12
         THEN [dt EXCEPT !.month = dt.month + 1, !.day = 1]
         ELSE [dt EXCEPT !.year = dt.year + 1, !.month = 1, !.day = 1]
PrevDay(dt) ==
    IF dt.day > 1
    THEN [dt EXCEPT !.day = dt.day - 1]
    ELSE IF dt.month > 1
         THEN [dt EXCEPT !.month = dt.month - 1,
                         !.day = DaysInMonth(dt.year, dt.month - 1)]
         ELSE [dt EXCEPT !.year = dt.year - 1, !.month = 12, !.day = 31]

\* datetime + timedelta(days=n)
RECURSIVE AddDays(_, _)
AddDays(dt, n) ==
    IF n = 0 THEN dt
    ELSE IF n > 0 THEN AddDays(NextDay(dt), n - 1)
    ELSE AddDays(PrevDay(dt), n + 1)

\* datetime + timedelta(hours=h): the hour stays in 0..23, days carry
AddHours(dt, h) ==
    LET total == dt.hour + h
    IN  AddDays([dt EXCEPT !.hour = total % 24], total \div 24)

\* datetime + relativedelta: the year first, the day limited to the length
\* of the month, then days and hours as a timedelta
Plus(dt, delta) ==
    LET y == dt.year + delta.years
        d == IF dt.day < DaysInMonth(y, dt.month)
             THEN dt.day ELSE DaysInMonth(y, dt.month)
        moved == [dt EXCEPT !.year = y, !.day = d]
    IN  AddHours(AddDays(moved, delta.days), delta.hours)
Minus(dt, delta) == Plus(dt, Negated(delta))

\* strftime('%m/%d/%Y'): two digits, two digits, four digits
Digit(n) == <<"0", "1", "2", "3", "4", "5", "6", "7", "8", "9">>[n + 1]
Pad2(n) == <<Digit((n \div 10) % 10), Digit(n % 10)>>
Pad4(n) == Pad2(n \div 100) \o Pad2(n % 100)
strftime(dt) ==
    Pad2(dt.month) \o <<"/">> \o Pad2(dt.day) \o <<"/">> \o Pad4(dt.year)

\* the three forms of statement of the examples
\*   target = datetime(...) [+|- relativedelta(...)]
\*   target = base +|- relativedelta(...)
\*   answer = base.strftime('%m/%d/%Y')
Construct(target, date, sign, delta) ==
    [kind |-> "construct", target |-> target, base |-> "", date |-> date,
     sign |-> sign, delta |-> delta]
Shift(target, base, sign, delta) ==
    [kind |-> "shift", target |-> target, base |-> base,
     date |-> datetime(1, 1, 1), sign |-> sign, delta |-> delta]
Format(target, base) ==
    [kind |-> "format", target |-> target, base |-> base,
     date |-> datetime(1, 1, 1), sign |-> 0, delta |-> NoDelta]

\* DATE_UNDERSTANDING_PROMPT: the statements of the six examples
Examples == <<
    <<Construct("today", datetime(2015, 1, 1), -1,
                relativedelta(0, 0, 0, 36)),
      Shift("one_week_from_today", "today", 1, relativedelta(0, 1, 0, 0)),
      Format("answer", "one_week_from_today")>>,
    <<Construct("today", datetime(2019, 1, 1), 1, relativedelta(0, 0, 6, 0)),
      Format("answer", "today")>>,
    <<Construct("today", datetime(1943, 6, 1), 1, relativedelta(0, 0, 1, 0)),
      Shift("ten_days_ago", "today", -1, relativedelta(0, 0, 10, 0)),
      Format("answer", "ten_days_ago")>>,
    <<Construct("today", datetime(1969, 4, 19), 0, NoDelta),
      Shift("later", "today", 1, relativedelta(0, 0, 0, 24)),
      Format("answer", "today")>>,
    <<Construct("today", datetime(2002, 3, 12), 0, NoDelta),
      Shift("later", "today", 1, relativedelta(0, 0, 0, 24)),
      Format("answer", "later")>>,
    <<Construct("today", datetime(2001, 2, 28), 1,
                relativedelta(16, 0, 0, 0)),
      Shift("yesterday", "today", -1, relativedelta(0, 0, 1, 0)),
      Format("answer", "yesterday")>> >>

Moved(dt, sign, delta) ==
    IF sign = 1 THEN Plus(dt, delta)
    ELSE IF sign = -1 THEN Minus(dt, delta)
    ELSE dt

Statement == Examples[example][line]
Advance ==
    /\ line' = line + 1
    /\ cell' = IF line = Len(Examples[example]) THEN "pal_done" ELSE "pal_exec"
    /\ UNCHANGED example

\* one of the examples is executed in an empty namespace
PalExample ==
    /\ cell = "start"
    /\ example' \in 1 .. Len(Examples)
    /\ line' = 1
    /\ cell' = "pal_exec"
    /\ UNCHANGED <<namespace, messages, assistant_message, args, weather,
                   cot_response, final_response, math_reasoning, question,
                   printed, sent>>
    /\ UNCHANGED loopvars

\* today = datetime(y, m, d) [+|- relativedelta(...)]
PalConstruct ==
    /\ cell = "pal_exec"
    /\ Statement.kind = "construct"
    /\ namespace' = [namespace EXCEPT ![Statement.target] =
                        Moved(Statement.date, Statement.sign, Statement.delta)]
    /\ Advance
    /\ UNCHANGED <<messages, assistant_message, args, weather, cot_response,
                   final_response, math_reasoning, question, printed, sent>>
    /\ UNCHANGED loopvars

\* name = base +|- relativedelta(...)
PalShift ==
    /\ cell = "pal_exec"
    /\ Statement.kind = "shift"
    /\ namespace' = [namespace EXCEPT ![Statement.target] =
                        Moved(namespace[Statement.base], Statement.sign,
                              Statement.delta)]
    /\ Advance
    /\ UNCHANGED <<messages, assistant_message, args, weather, cot_response,
                   final_response, math_reasoning, question, printed, sent>>
    /\ UNCHANGED loopvars

\* answer = base.strftime('%m/%d/%Y')
PalFormat ==
    /\ cell = "pal_exec"
    /\ Statement.kind = "format"
    /\ namespace' = [namespace EXCEPT ![Statement.target] =
                        strftime(namespace[Statement.base])]
    /\ Advance
    /\ UNCHANGED <<messages, assistant_message, args, weather, cot_response,
                   final_response, math_reasoning, question, printed, sent>>
    /\ UNCHANGED loopvars

(* ---- helpers of the properties ---- *)

WaitNodes == {"G3_wait", "H2_wait", "N2_wait"}
LoopLeft == pc \in {"P", "Q", "R"}

RECURSIVE NodesOfRound(_, _)
NodesOfRound(log, k) ==
    IF log = <<>> THEN <<>>
    ELSE (IF Head(log)[1] = k THEN <<Head(log)[2]>> ELSE <<>>)
         \o NodesOfRound(Tail(log), k)

RECURSIVE Only(_, _)
Only(nodes, keep) ==
    IF nodes = <<>> THEN <<>>
    ELSE (IF Head(nodes) \in keep THEN <<Head(nodes)>> ELSE <<>>)
         \o Only(Tail(nodes), keep)

IsPrefix(a, b) == Len(a) <= Len(b) /\ a = SubSeq(b, 1, Len(a))
CountNode(node) == Len(Only([i \in 1 .. Len(steps) |-> steps[i][2]], {node}))
LastStep == steps[Len(steps)]

\* the rounds whose best-score check (K or L) has been done
ChecksDone == CountNode("K") + CountNode("L")

\* the finished calls of one kind in one round
CallsOf(kind, k) ==
    {i \in 1 .. Len(calls) :
        calls[i].req.kind = kind /\ calls[i].req.iteration = k}

(* ---- C1 ---- *)

RoundsStarted == CountNode("F")

\* C1: provided every model call returns, the run executes exactly N rounds,
\* then leaves the loop, saves the final results and reaches End; round N+1
\* is never started and the loop is never left before round N.
C1_ExactlyNRounds ==
    /\ [](iteration <= NumIterations /\ RoundsStarted <= NumIterations)
    /\ [](LoopLeft => (iteration = NumIterations
                       /\ RoundsStarted = NumIterations
                       /\ Len(all_results) = NumIterations))
    /\ <>(pc = "R" /\ Len(final_results) = 1)

C1_Witness ==
    /\ pc = "R"
    /\ RoundsStarted = NumIterations
    /\ Len(final_results) = 1
    /\ \A i \in 1 .. Len(calls) : calls[i].outcome = "ok"

(* ---- C2 ---- *)

RoundOrders ==
    {<<"F", "G", "H", "I", "J", b, "M">> \o t :
        b \in {"K", "L"}, t \in {<<"N", "O">>, <<"P", "Q">>}}

\* C2: within every round the steps run in the order construct zero-shot
\* prompt, generate predictions, evaluate, save the iteration's results,
\* check the best score, none skipped or repeated; the prompt is improved or
\* the loop left only after the best-score check.
C2_RoundOrder ==
    \A k \in 1 .. iteration :
        \E order \in RoundOrders : IsPrefix(NodesOfRound(steps, k), order)

C2_Witness ==
    /\ iteration = 2
    /\ pc = "N1"
    /\ NodesOfRound(steps, 1) = <<"F", "G", "H", "I", "J", "K", "M", "N", "O">>
    /\ NodesOfRound(steps, 2) = <<"F", "G", "H", "I", "J", "L", "M", "N">>

(* ---- C3 ---- *)

\* C3: after the best-score check of round k the best score is the maximum
\* of the average scores of rounds 1..k, and the best prompt and the best
\* iteration are the system prompt and the index of a round of 1..k whose
\* average score is that maximum.
C3_BestIsMaximum ==
    ChecksDone >= 1 =>
        /\ best_iteration \in 1 .. ChecksDone
        /\ FracEq(best_score, all_results[best_iteration].avg_score)
        /\ best_score = all_results[best_iteration].avg_score
        /\ best_prompt = all_results[best_iteration].system_prompt
        /\ \A j \in 1 .. ChecksDone :
               FracLeq(all_results[j].avg_score, best_score)

C3_Witness ==
    /\ ChecksDone = 3
    /\ best_iteration = 2
    /\ FracLess(all_results[1].avg_score, all_results[2].avg_score)
    /\ FracLess(all_results[3].avg_score, all_results[2].avg_score)
    /\ best_prompt # all_results[3].system_prompt

(* ---- C4 ---- *)

\* the model-call steps of round k, in the order they ran
ModelCallSteps(k) == Only(NodesOfRound(steps, k), {"G", "H", "N"})
RoundFinished(k) == k < iteration \/ (k = iteration /\ LoopLeft)

\* C4 as stated: every round performs exactly the three model-call steps
\* generate, judge, improve, one after the other.
C4_ThreeCallStepsEveryRound ==
    \A k \in 1 .. iteration :
        RoundFinished(k) => ModelCallSteps(k) = <<"G", "H", "N">>

\* C4 (amended): every round but the last performs exactly the three
\* model-call steps generate, judge, improve, in this order; the last round
\* performs exactly two, generate and judge, and no improvement step.
C4_ThreeCallStepsButLast ==
    \A k \in 1 .. iteration :
        /\ IsPrefix(ModelCallSteps(k), <<"G", "H", "N">>)
        /\ (RoundFinished(k) /\ k < NumIterations)
               => ModelCallSteps(k) = <<"G", "H", "N">>
        /\ (RoundFinished(k) /\ k >= NumIterations)
               => ModelCallSteps(k) = <<"G", "H">>

C4_Witness ==
    /\ pc = "Q"
    /\ iteration = NumIterations
    /\ ModelCallSteps(1) = <<"G", "H", "N">>
    /\ ModelCallSteps(NumIterations) = <<"G", "H">>

(* ---- C5 ---- *)

ImprovementsDone ==
    Cardinality({i \in 1 .. Len(calls) :
                    calls[i].req.kind = "improve" /\ calls[i].outcome = "ok"})

\* C5: the improvement step runs after a round exactly when the round is not
\* the last one: a run of N rounds improves the system prompt N-1 times, and
\* after the last round the loop ends without an improvement step.
C5_ImproveIffNotLast ==
    /\ \A i \in 1 .. Len(steps) :
           /\ steps[i][2] \in {"N", "O"} => steps[i][1] < NumIterations
           /\ steps[i][2] = "P" => steps[i][1] = NumIterations
    /\ \A k \in 1 .. iteration :
           RoundFinished(k) =>
               (k < NumIterations <=> Only(NodesOfRound(steps, k), {"N"}) = <<"N">>)
    /\ LoopLeft =>
           /\ CountNode("N") = NumIterations - 1
           /\ CountNode("O") = NumIterations - 1
           /\ ImprovementsDone = NumIterations - 1

C5_Witness ==
    /\ pc = "R"
    /\ CountNode("O") = NumIterations - 1
    /\ ImprovementsDone = NumIterations - 1
    /\ NodesOfRound(steps, NumIterations)
           \in {<<"F", "G", "H", "I", "J", b, "M", "P", "Q">> : b \in {"K", "L"}}

(* ---- C6 ---- *)

\* C6: predictions of round 1 are generated with the initial system prompt,
\* and those of round k+1 with exactly the prompt the improvement step of
\* round k returned, which was built from the evaluations of round k.
C6_PromptChain ==
    \A i \in 1 .. Len(calls) :
        calls[i].req.kind = "predict" =>
            LET k == calls[i].req.iteration IN
            IF k = 1 THEN calls[i].req.prompt = InitialPrompt
            ELSE /\ Cardinality(CallsOf("improve", k - 1)) = 1
                 /\ \A j \in CallsOf("improve", k - 1) :
                        /\ j < i
                        /\ calls[j].outcome = "ok"
                        /\ calls[i].req.prompt = calls[j].new_prompt
                        /\ calls[j].req.evals = all_results[k - 1].evaluations
                        /\ Len(calls[j].req.evals) = NumPapers

C6_Witness ==
    /\ Len(calls) > 0
    /\ LET c == calls[Len(calls)] IN
       /\ c.req.kind = "predict"
       /\ c.req.iteration = 3
       /\ c.req.prompt # InitialPrompt
       /\ c.req.prompt # all_results[2].system_prompt

(* ---- C7 ---- *)

\* C7: the loop has no concurrency: at most one model call is in flight at
\* any moment, the driver does nothing else while it waits, and no step of
\* round k+1 starts before every step of round k has finished.
C7_NoConcurrency ==
    /\ Cardinality(inflight) <= 1
    /\ inflight # {} <=> pc \in WaitNodes
    /\ \A r \in inflight : r = request /\ r.iteration = iteration
    /\ \A i, j \in 1 .. Len(steps) : i < j => steps[i][1] <= steps[j][1]
    /\ \A i, j \in 1 .. Len(calls) :
           i < j => calls[i].req.iteration <= calls[j].req.iteration
    /\ \A k \in 1 .. iteration :
           (k < iteration) =>
               \E b \in {"K", "L"} :
                   NodesOfRound(steps, k)
                       = <<"F", "G", "H", "I", "J", b, "M", "N", "O">>

C7_Witness ==
    /\ pc = "H2_wait"
    /\ iteration = 2
    /\ Cardinality(inflight) = 1
    /\ Len(calls) > NumPapers

(* ---- C8 ---- *)

ErrorCalls == {i \in 1 .. Len(calls) : calls[i].outcome = "error"}
StepOfKind(kind) ==
    IF kind = "predict" THEN "G" ELSE IF kind = "judge" THEN "H" ELSE "N"

\* C8: when a model call fails, the failure propagates and the run stops
\* there: the failed call is not retried, no later step of that round or of
\* a later round runs, and the final results are not saved.
C8_FailureStopsRun ==
    /\ [](ErrorCalls # {} <=> pc = "Failed")
    /\ [](pc = "Failed" =>
             /\ ErrorCalls = {Len(calls)}
             /\ inflight = {}
             /\ final_results = <<>>
             /\ LastStep = <<calls[Len(calls)].req.iteration,
                             StepOfKind(calls[Len(calls)].req.kind)>>)
    /\ [][pc = "Failed" => UNCHANGED vars]_vars

C8_Witness ==
    /\ pc = "Failed"
    /\ iteration = 2
    /\ calls[Len(calls)].req.kind = "judge"
    /\ calls[Len(calls)].outcome = "error"

(* ---- C9 ---- *)

\* C9: the final results are saved exactly once in a run that reaches End
\* and never in another, only after the last round has left the loop, and
\* no model call or state update follows the save.
C9_FinalSaveOnce ==
    /\ [](Len(final_results) <= 1)
    /\ [](Len(final_results) = 1 <=> pc = "R")
    /\ [](Len(final_results) = 1 =>
             /\ SubSeq(steps, Len(steps) - 2, Len(steps))
                    = <<<<NumIterations, "M">>, <<NumIterations, "P">>,
                        <<NumIterations, "Q">>>>
             /\ inflight = {}
             /\ final_results[1].all_results = all_results
             /\ final_results[1].best_score = best_score
             /\ final_results[1].best_prompt = best_prompt
             /\ final_results[1].best_iteration = best_iteration)
    /\ [][Len(final_results) >= 1 => UNCHANGED vars]_vars

C9_Witness ==
    /\ pc = "R"
    /\ Len(final_results) = 1
    /\ Len(final_results[1].all_results) = NumIterations
    /\ final_results[1].best_iteration = 2

(* ---- C10 ---- *)

\* C10: when a round's average score is not the best, the best-score check
\* changes nothing: best score, best prompt and best iteration keep their
\* values; they change only on the branch where the score is the best.
C10_BestUnchangedUnlessBest ==
    /\ [][(pc = "J" /\ FracLess(avg_score, best_score)) => pc' = "L"]_vars
    /\ [][(pc \in {"J", "L"}) => UNCHANGED tracking]_vars
    /\ [][(tracking' # tracking) =>
             (pc = "K" /\ FracLeq(best_score, avg_score))]_vars

C10_Witness ==
    /\ pc = "M"
    /\ iteration = 2
    /\ LastStep = <<2, "L">>
    /\ FracLess(avg_score, best_score)
    /\ best_iteration = 1
    /\ best_prompt # system_prompt

(* ---- C11 ---- *)

GenerateNodes == {"G", "G1", "G2", "G3", "G3_wait", "G4", "G5"}
EvaluateNodes == {"H", "H1", "H2", "H2_wait", "H3", "H4", "H5"}

\* the predictions of the current round are complete
PredictionsDone ==
    /\ CountNode("G") = iteration
    /\ iteration >= 1
    /\ pc \notin GenerateNodes \cup {"Failed"}

\* one prediction per paper of the validation data, in order, each with the
\* paper and its gold labels
OnePerPaper(preds) ==
    /\ Len(preds) = Len(validation_data)
    /\ \A i \in 1 .. Len(preds) :
           /\ preds[i].paper = validation_data[i].id
           /\ preds[i].gold = validation_data[i].gold

\* C11: the prediction step of every round produces exactly one prediction
\* for each paper of the validation data, stored with the paper and its gold
\* labels; there are as many stored predictions as validation papers.
C11_OnePredictionPerPaper ==
    /\ PredictionsDone =>
           /\ OnePerPaper(predictions)
           /\ Len(predictions) = NumPapers
           /\ Cardinality(CallsOf("predict", iteration)) = NumPapers
           /\ {calls[i].req.subject : i \in CallsOf("predict", iteration)}
                  = {validation_data[j].abstract : j \in 1 .. NumPapers}
    /\ \A k \in 1 .. Len(all_results) : OnePerPaper(all_results[k].predictions)

C11_Witness ==
    /\ pc = "H"
    /\ iteration = 2
    /\ Len(predictions) = NumPapers
    /\ predictions[NumPapers].gold = Paper(NumPapers).gold

(* ---- C12 ---- *)

\* the evaluations of the current round are complete and averaged
EvaluationsDone ==
    /\ CountNode("H") = iteration
    /\ iteration >= 1
    /\ pc \notin GenerateNodes \cup EvaluateNodes \cup {"Failed"}

RECURSIVE ScoreTotal(_, _)
ScoreTotal(evals, n) ==
    IF n = 0 THEN 0 ELSE ScoreTotal(evals, n - 1) + evals[n].score

\* C12: the evaluation step evaluates each prediction of the round exactly
\* once and stores a score and an explanation for it; the average is
\* computed only after every prediction is evaluated and is the sum of the
\* stored scores divided by their number.
C12_EvaluateEachOnce ==
    /\ pc \in EvaluateNodes \ {"H"} => avg_score = (IF iteration = 1 THEN NoScore
                                         ELSE all_results[iteration - 1].avg_score)
    /\ EvaluationsDone =>
           /\ Len(evaluations) = Len(predictions)
           /\ \A i \in 1 .. Len(evaluations) :
                  /\ evaluations[i].paper = predictions[i].paper
                  /\ evaluations[i].score \in Scores
                  /\ evaluations[i].explanation \in Explanations
           /\ Cardinality(CallsOf("judge", iteration)) = Len(predictions)
           /\ {calls[i].req.subject : i \in CallsOf("judge", iteration)}
                  = {predictions[j].paper : j \in 1 .. Len(predictions)}
           /\ avg_score[2] = Len(predictions)
           /\ avg_score[1] = ScoreTotal(evaluations, Len(predictions))

C12_Witness ==
    /\ pc = "I"
    /\ iteration = 2
    /\ Len(evaluations) = NumPapers
    /\ evaluations[1].score # evaluations[NumPapers].score
    /\ avg_score[1] = 1

(* ---- C13 ---- *)

ImproveRequests ==
    {r \in inflight : r.kind = "improve"}
        \cup {calls[i].req : i \in {j \in 1 .. Len(calls) :
                                       calls[j].req.kind = "improve"}}
        \cup (IF request.kind = "improve" THEN {request} ELSE {})

\* C13: the metaprompt sent to the improving model in round k holds all the
\* evaluations of round k, one per prediction, and none of another round.
C13_MetapromptHoldsRoundEvaluations ==
    \A r \in ImproveRequests :
        /\ r.iteration \in 1 .. Len(all_results)
        /\ r.evals = all_results[r.iteration].evaluations
        /\ Len(r.evals) = Len(all_results[r.iteration].predictions)
        /\ \A i \in 1 .. Len(r.evals) :
               r.evals[i].paper = all_results[r.iteration].predictions[i].paper

C13_Witness ==
    /\ pc = "N2_wait"
    /\ iteration = 2
    /\ \E r \in inflight :
           /\ r.kind = "improve"
           /\ Len(r.evals) = NumPapers
           /\ r.evals # all_results[1].evaluations

(* ---- the notebooks: one cell sequence is run from the start ---- *)
NotebookInit ==
    /\ LoopIdle
    /\ cell = "start"
    /\ NotebookIdle

NotebookNext ==
    \/ WeatherRequest \/ WeatherArgs \/ WeatherCall
    \/ FeedbackAsk \/ FeedbackShowAssistant \/ FeedbackShowMessages
    \/ FeedbackAppend \/ FeedbackTool \/ FeedbackFinal
    \/ MonologueAsk \/ MonologueExtract
    \/ TestLoopEnter \/ TestLoopBody \/ TestLoopExit
    \/ RefusalParse \/ RefusalCheck
    \/ PalExample \/ PalConstruct \/ PalShift \/ PalFormat

NotebookSpec == NotebookInit /\ [][NotebookNext]_vars

(* ---- C19 ---- *)

\* C19: get_current_weather(location, unit) returns a JSON object whose
\* location is exactly the location argument, whose temperature is "50" and
\* whose unit is the unit argument, "fahrenheit" when none is given; decoding
\* the result gives the location back unchanged for every input string.
C19_WeatherRoundTrip ==
    cell = "weather_done" =>
        LET d == json_loads(weather) IN
        /\ Len(d) = 3
        /\ Lookup(d, LOCATION) = args.location
        /\ Lookup(d, TEMPERATURE) = <<"50">>
        /\ Lookup(d, UNIT) = (IF args.unit = None THEN FAHRENHEIT ELSE args.unit)

C19_Witness ==
    /\ cell = "weather_done"
    /\ args.location = <<BS, "n">>
    /\ args.unit = None
    /\ Lookup(json_loads(weather), UNIT) = FAHRENHEIT

(* ---- C14 ---- *)

\* C14 as stated: the tool message carries the result of calling
\* get_current_weather with the inputs the model generated: the location of
\* the tool result is the location value of the tool call's arguments.
C14_ToolResultLocation ==
    (cell \in {"feedback_shown_3", "feedback_final", "feedback_done"}) =>
        Lookup(json_loads(messages[3].content), LOCATION)
            = Lookup(json_loads(messages[2].tool_calls[1].function.arguments),
                     LOCATION)

(* ---- C15 ---- *)

FinalRequests == {i \in 1 .. Len(sent) : sent[i].kind = "final"}

\* C15: the final completion request is sent only when the conversation
\* holds, in this order, the user message, the assistant message with its
\* tool call and a tool message whose tool_call_id and name are the id and
\* the function name of the assistant message's first tool call.
C15_FinalRequestConversation ==
    /\ Cardinality(FinalRequests) <= 1
    /\ \A i \in FinalRequests :
           LET m == sent[i].messages IN
           /\ i = 2
           /\ sent[1].kind = "feedback"
           /\ Len(m) = 3
           /\ m[1] = sent[1].messages[1]
           /\ m[1].role = "user"
           /\ m[2].role = "assistant"
           /\ m[2] = assistant_message
           /\ Len(m[2].tool_calls) >= 1
           /\ m[3].role = "tool"
           /\ m[3].tool_call_id = m[2].tool_calls[1].id
           /\ m[3].name = m[2].tool_calls[1].function.name
    /\ cell = "feedback_done" <=> FinalRequests # {}

C15_Witness ==
    /\ cell = "feedback_done"
    /\ FinalRequests = {2}
    /\ Len(sent[2].messages[2].tool_calls) = 2
    /\ sent[2].messages[3].tool_call_id = <<"call_1">>

(* ---- C16 ---- *)

Delimiters == {thinking_delimiter, thinking_delimiter_end, response_delimiter, response_delimiter_end}

\* a text without its leading and trailing white space
RECURSIVE StripLeft(_)
StripLeft(str) ==
    IF str # <<>> /\ Head(str) = NL THEN StripLeft(Tail(str)) ELSE str
RECURSIVE StripRight(_)
StripRight(str) ==
    IF str # <<>> /\ str[Len(str)] = NL
    THEN StripRight(SubSeq(str, 1, Len(str) - 1)) ELSE str
Strip(str) == StripRight(StripLeft(str))

\* C16 as stated: for every reply of the form
\* <thinking>R</thinking><response>Response to the user: X</response> the
\* extracted final response is X, up to surrounding white space, and holds
\* no delimiter and no part of the reasoning.
C16_ExtractsFinalResponse ==
    cell = "monologue_done" =>
        \A r \in PlainTexts, x \in PlainTexts, g \in {<<>>, <<NL>>} :
            cot_response = Formatted(r, x, g) =>
                /\ Len(printed) = 1
                /\ printed[1].kind = "final_response"
                /\ Strip(printed[1].value) = Strip(x)
                /\ Strip(final_response) = Strip(x)
                /\ \A i \in 1 .. Len(final_response) :
                       final_response[i] \notin Delimiters

(* ---- C17 ---- *)

\* C17: for every completion exactly one of the two outcomes is printed: the
\* refusal message when the message has a refusal, the parsed result
\* otherwise; the parsed result is never printed for a refused request.
C17_RefusalOrParsed ==
    cell = "refusal_done" =>
        /\ Len(printed) = 1
        /\ math_reasoning.refusal # None =>
               /\ printed[1].kind = "refusal"
               /\ printed[1].value = math_reasoning.refusal
        /\ math_reasoning.refusal = None =>
               /\ printed[1].kind = "parsed"
               /\ printed[1].value = math_reasoning.parsed

C17_Witness ==
    /\ cell = "refusal_done"
    /\ math_reasoning.refusal # None
    /\ math_reasoning.parsed # None
    /\ printed = <<[kind |-> "refusal", value |-> math_reasoning.refusal]>>

(* ---- C18 ---- *)

Has(str, c) == \E i \in 1 .. Len(str) : str[i] = c
First(str, c) == CHOOSE i \in 1 .. Len(str) :
                     str[i] = c /\ \A j \in 1 .. i - 1 : str[j] # c
After(str, c) == SubSeq(str, First(str, c) + 1, Len(str))
Before(str, c) == SubSeq(str, 1, First(str, c) - 1)

\* the response section of a reply with the opening delimiter: what follows
\* it, up to the next opening or closing delimiter
ResponseSection(str) ==
    LET rest == After(str, response_delimiter)
        cut1 == IF Has(rest, response_delimiter)
                THEN Before(rest, response_delimiter) ELSE rest
    IN  IF Has(cut1, response_delimiter_end)
        THEN Before(cut1, response_delimiter_end) ELSE cut1

NoFinalPrinted == printed = <<[kind |-> "except", value |-> NO_FINAL_RESPONSE]>>

\* C18 as stated: the extraction never raises; a reply without the opening
\* response delimiter, or without "Response to the user: " in the response
\* section, prints "No final response found" and no extracted text; a reply
\* that lacks only the closing delimiter is no error and yields everything
\* after the prefix.
C18_ExtractionNeverRaises ==
    cell = "monologue_done" =>
        /\ Len(printed) = 1
        /\ ~Has(cot_response, response_delimiter) => NoFinalPrinted
        /\ (Has(cot_response, response_delimiter)
              /\ ~Has(ResponseSection(cot_response), RESPONSE_PREFIX))
               => NoFinalPrinted
        /\ (Has(cot_response, response_delimiter)
              /\ Has(ResponseSection(cot_response), RESPONSE_PREFIX)
              /\ ~Has(cot_response, response_delimiter_end))
               => printed = <<[kind |-> "final_response",
                               value |-> After(ResponseSection(cot_response),
                                               RESPONSE_PREFIX)]>>

(* ---- C20 ---- *)

TestRequests == {i \in 1 .. Len(sent) : sent[i].kind = "test"}

\* C20: the test loop keeps no state from question to question: for each
\* question of user_questions, in list order, it sends exactly one request
\* whose messages are the system message and that single question, with no
\* message or reply of an earlier question.
C20_TestLoopStateless ==
    /\ cell = "test_loop" => Len(sent) = question - 1
    /\ cell = "test_done" => Len(sent) = Len(user_questions)
    /\ \A i \in TestRequests :
           /\ i <= Len(user_questions)
           /\ Len(sent[i].messages) = 2
           /\ sent[i].messages[1].role = "system"
           /\ sent[i].messages[1].content = SYSTEM_MESSAGE
           /\ sent[i].messages[2].role = "user"
           /\ sent[i].messages[2].content = <<user_questions[i]>>

C20_Witness ==
    /\ cell = "test_done"
    /\ Len(sent) = 7
    /\ sent[7].messages[2].content = <<"What's your most popular dish?">>
    /\ printed[2].value # printed[5].value

(* ---- C21 ---- *)

\* the variable the last computation step of example e assigns: the target
\* of its last statement that is not the formatting of the answer
RECURSIVE LastComputed(_, _)
LastComputed(e, i) ==
    IF Examples[e][i].kind # "format" THEN Examples[e][i].target
    ELSE LastComputed(e, i - 1)

\* C21: in every few-shot example of DATE_UNDERSTANDING_PROMPT the value
\* assigned to answer is the MM/DD/YYYY formatting of the date the question
\* asks for, the date the example's last computation step produces.
C21_AnswerIsAskedDate ==
    cell = "pal_done" =>
        namespace["answer"] =
            strftime(namespace[LastComputed(example, Len(Examples[example]))])

(* ---- C22 ---- *)

\* round k generated its predictions with prompt p and scored all of them
Evaluated(p, k) ==
    /\ k \in 1 .. Len(all_results)
    /\ all_results[k].system_prompt = p
    /\ Cardinality(CallsOf("predict", k)) = NumPapers
    /\ \A i \in CallsOf("predict", k) :
           calls[i].req.prompt = p /\ calls[i].outcome = "ok"
    /\ Cardinality(CallsOf("judge", k)) = NumPapers
    /\ \A i \in CallsOf("judge", k) : calls[i].outcome = "ok"

\* the improvement calls that returned a prompt
ImprovedPrompts ==
    {i \in 1 .. Len(calls) :
        calls[i].req.kind = "improve" /\ calls[i].outcome = "ok"}

\* C22: the best prompt is always a prompt that was used to generate and
\* score the predictions of a round; every prompt the improvement step
\* returns is the prompt the following round generates with; when the run
\* ends no improved prompt is left unevaluated.
C22_BestPromptWasEvaluated ==
    /\ best_prompt # NoPrompt =>
           \E k \in 1 .. Len(all_results) : Evaluated(best_prompt, k)
    /\ \A j \in ImprovedPrompts :
           LET k == calls[j].req.iteration IN
           /\ k < NumIterations
           /\ \A i \in CallsOf("predict", k + 1) :
                  i > j /\ calls[i].req.prompt = calls[j].new_prompt
           /\ Len(all_results) >= k + 1 =>
                  all_results[k + 1].system_prompt = calls[j].new_prompt
    /\ LoopLeft =>
           \A j \in ImprovedPrompts :
               Evaluated(calls[j].new_prompt, calls[j].req.iteration + 1)

C22_Witness ==
    /\ pc = "R"
    /\ best_iteration = NumIterations
    /\ best_prompt # InitialPrompt
    /\ best_prompt # all_results[NumIterations - 1].system_prompt
    /\ Cardinality(ImprovedPrompts) = NumIterations - 1

(* ---- C23 ---- *)

\* C23: when the loop ends after its N >= 1 rounds a best round is recorded
\* whatever the scores of the rounds were, all equal and lowest possible
\* included: the best iteration is one of 1..N and the best prompt is the
\* prompt of that round.
C23_BestRoundRecorded ==
    /\ LoopLeft =>
           /\ NumIterations >= 1
           /\ best_iteration \in 1 .. NumIterations
           /\ best_prompt \in Prompts
           /\ best_prompt = all_results[best_iteration].system_prompt
           /\ best_score # NoScore
    /\ pc = "R" =>
           /\ final_results[1].best_iteration \in 1 .. NumIterations
           /\ final_results[1].best_prompt \in Prompts

C23_Witness ==
    /\ pc = "R"
    /\ \A k \in 1 .. NumIterations : all_results[k].avg_score[1] = 0
    /\ best_iteration \in 1 .. NumIterations
    /\ best_score[1] = 0

(* ---- C24 ---- *)

\* C24: the tracked best score never decreases, and the best iteration
\* changes only in a round whose average score is at least the best score
\* before it, to the number of that round.
C24_BestScoreMonotone ==
    /\ [][FracLeq(best_score, best_score')]_vars
    /\ [][(best_iteration' # best_iteration) =>
             /\ FracLeq(best_score, avg_score)
             /\ best_iteration' = iteration
             /\ best_score' = avg_score]_vars
    /\ [](\A k \in 1 .. Len(all_results) :
             k <= ChecksDone => FracLeq(all_results[k].avg_score, best_score))

C24_Witness ==
    /\ pc = "M"
    /\ iteration = 3
    /\ LastStep = <<3, "K">>
    /\ best_iteration = 3
    /\ FracLess(all_results[2].avg_score, all_results[1].avg_score)
    /\ FracEq(all_results[1].avg_score, all_results[3].avg_score)

(* ---- C25 ---- *)

\* the rounds that have run to their end (prompt updated, or loop left)
RoundsCompleted == CountNode("O") + CountNode("P")

\* C25: after k rounds exactly k per-iteration results are recorded, the
\* k-th holding round k's prompt, predictions, evaluations and average score;
\* a later round only appends to them, and the validation data is the same
\* in every round.
C25_ResultsAccumulate ==
    /\ [](/\ Len(all_results) = CountNode("I")
          /\ RoundsCompleted <= Len(all_results)
          /\ Len(all_results) <= RoundsCompleted + 1
          /\ (Len(steps) > 0 /\ LastStep[2] \in {"O", "P", "Q"})
                 => Len(all_results) = RoundsCompleted)
    /\ [](\A k \in 1 .. Len(all_results) :
             /\ all_results[k].iteration = k
             /\ \A i \in CallsOf("predict", k) :
                    calls[i].req.prompt = all_results[k].system_prompt
             /\ OnePerPaper(all_results[k].predictions)
             /\ Len(all_results[k].evaluations) = NumPapers
             /\ \A i \in 1 .. NumPapers :
                    all_results[k].evaluations[i].paper
                        = all_results[k].predictions[i].paper
             /\ all_results[k].avg_score
                    = AverageScore(all_results[k].evaluations))
    /\ []((Len(all_results) = iteration /\ iteration >= 1 /\ pc # "E") =>
             all_results[iteration] = [iteration |-> iteration,
                                       system_prompt |-> system_prompt,
                                       predictions |-> predictions,
                                       evaluations |-> evaluations,
                                       avg_score |-> avg_score])
    /\ [][/\ IsPrefix(all_results, all_results')
          /\ Len(all_results') <= Len(all_results) + 1]_vars
    /\ [](iteration >= 1 => validation_data = LoadValidationData)
    /\ [][iteration >= 1 => validation_data' = validation_data]_vars

C25_Witness ==
    /\ pc = "R"
    /\ Len(all_results) = NumIterations
    /\ all_results[1].system_prompt # all_results[2].system_prompt
    /\ all_results[1].avg_score # all_results[3].avg_score
    /\ all_results[2].evaluations # all_results[3].evaluations
    /\ all_results[1].evaluations[1].score # all_results[1].evaluations[2].score

====
